---- MODULE Spec2Model ----
(***************************************************************************)
(* Model of Sources/Foundation/Heap/OSAllocator.h (POSIX branch): a        *)
(* reservation of address space obtained with mmap(PROT_NONE), committed   *)
(* and decommitted with mprotect, released with munmap.                    *)
(*                                                                         *)
(* Also modelled: Sources/Foundation/Thread/Thread.h (POSIX branch) and     *)
(* the compare-exchange loop of Atomics::fetch_add in                      *)
(* Sources/Foundation/Thread/Atomics.h (Windows branch, 1 and 2 byte T).   *)
(*                                                                         *)
(* Addresses and sizes are counted in machine words (one unit is one       *)
(* size_t), so the adjustment word just below up is address up - 1.       *)
(* The kernel's page granule is the page_size the object was built with.   *)
(***************************************************************************)
EXTENDS Integers, Naturals, Sequences, FiniteSets, TLC

(* ------------------------------ bounds --------------------------------- *)
\* width in bits of size_t / uintptr_t in the model
WordBits == 8
\* page_size ranges over 2^1 .. 2^MaxPageLog
MaxPageLog == 2
\* alignment ranges over 0 and 2^0 .. 2^MaxAlignLog
MaxAlignLog == 3
\* reserve_size ranges over 1 .. MaxReserve
MaxReserve == 5
\* mmap returns page number 1 .. MaxRawPage (times page_size)
MaxRawPage == 2
\* the count of map/unmap calls since construction saturates here
OpsCap == 2
\* Thread::create is called at most MaxCreates times
MaxCreates == 2
\* width in bits of the integer fetch_add works on
AtomBits == 2
\* number of concurrent fetch_add calls
NumAdders == 2

PageSizes == {2^k : k \in 1..MaxPageLog}
Alignments == {0} \cup {2^k : k \in 0..MaxAlignLog}
ReserveSizes == 1..MaxReserve
RawAddrs(ps) == {k * ps : k \in 1..MaxRawPage}
\* which OS call of a handler the kernel refuses (0: none)
FailPoints == 0..3
StoreValues == {1}
\* the owner writes the first and the last word of the region
StoreOffsets(rs) == {0, rs - 1}

(* ------------------------- machine arithmetic -------------------------- *)
Wrap(x) == x % (2^WordBits)

RECURSIVE BitAnd(_, _)
BitAnd(a, b) ==
  IF a = 0 \/ b = 0 THEN 0
  ELSE (a % 2) * (b % 2) + 2 * BitAnd(a \div 2, b \div 2)

BitNot(a) == (2^WordBits - 1) - a

\* Detail::align_to: (data + (align - 1)) & ~(align - 1)
\* (its assert on align holds for every page_size drawn from PageSizes)
align_to(data, align) ==
  BitAnd(Wrap(data + Wrap(align - 1)), BitNot(Wrap(align - 1)))

\* the aligned address computed without the mask
up_aligned_addr_nomask(addr, align) ==
  Wrap(addr + align)

\* the aligned address rounded up from addr + alignment
up_aligned_addr_roundup(addr, align) ==
  align_to(Wrap(addr + align), align)

\* the aligned address with the alignment added twice
up_aligned_addr_twice(addr, align) ==
  BitAnd(Wrap(addr + 2 * align), BitNot(Wrap(align - 1)))

\* ((addr + alignment) & ~(alignment - 1))
up_aligned_addr(addr, align) ==
  BitAnd(Wrap(addr + align), BitNot(Wrap(align - 1)))

(* ------------------------- kernel (POSIX) side ------------------------- *)
Range(lo, len) == lo .. (lo + len - 1)

\* the kernel rounds a length up to whole pages
PageUp(len, g) == ((len + g - 1) \div g) * g

\* mmap (nullptr, len, PROT_NONE, MAP_PRIVATE|MAP_ANONYMOUS|MAP_NORESERVE):
\* the new range has no access rights and no physical backing
mmap_valid(p, addr, len, g) ==
  /\ len > 0
  /\ addr # 0
  /\ addr % g = 0
  /\ Range(addr, PageUp(len, g)) \cap DOMAIN p = {}

mmap(p, addr, len, g) ==
  [a \in DOMAIN p \cup Range(addr, PageUp(len, g)) |->
     IF a \in DOMAIN p THEN p[a] ELSE "None"]

\* mprotect (addr, len, access): only the access rights of the window change
mprotect_valid(p, addr, len, g) ==
  /\ addr % g = 0
  /\ Range(addr, PageUp(len, g)) \subseteq DOMAIN p

mprotect(p, addr, len, access, g) ==
  [a \in DOMAIN p |-> IF a \in Range(addr, PageUp(len, g)) THEN access ELSE p[a]]

\* munmap (addr, len): the range leaves the address space with its backing
munmap_valid(addr, len, g) ==
  /\ len > 0
  /\ addr % g = 0

munmap(f, addr, len, g) ==
  [a \in DOMAIN f \ Range(addr, PageUp(len, g)) |-> f[a]]

\* a store to a writable address gives its page backing (zero filled)
Writable(p, a) == a \in DOMAIN p /\ p[a] = "RW"
Readable(p, a) == a \in DOMAIN p /\ p[a] \in {"Read", "RW"}

PageOf(a, g) == Range((a \div g) * g, g)

store(m, a, v, g) ==
  [x \in DOMAIN m \cup PageOf(a, g) |->
     IF x = a THEN v ELSE IF x \in DOMAIN m THEN m[x] ELSE 0]

load(m, a) == IF a \in DOMAIN m THEN m[a] ELSE 0

(* ------------------------------- state --------------------------------- *)
VARIABLES
  pc,             \* "none": no object; "live": constructed; "aborted"
  base,           \* OSAllocator::base
  reserved_size,  \* OSAllocator::reserved_size
  page_size,      \* OSAllocator::page_size
  alignment,      \* OSAllocator::alignment
  prot,           \* kernel: reserved address |-> access rights
  mem,            \* kernel: backed address |-> contents
  calls,          \* the OS calls and stores issued by the last handler
  span,           \* what the last successful reserve call returned
  last,           \* the last handler that ran, with its size argument
  nops,           \* map/unmap calls since construction (saturating)
  repeated,       \* the last handler call repeated the one before it
  results         \* for each entry of calls: did it report success

avars == <<pc, base, reserved_size, page_size, alignment, prot, mem,
           calls, span, last, nops, repeated, results>>

VARIABLES
  tpc,            \* Thread object: "none", "live", "joining", "aborted"
  joinable,       \* Thread::joinable
  handle,         \* Thread::handle (0: none, else index into threads)
  threads,        \* the threads started: function, argument, state
  tcall,          \* the last Thread member called
  tlast,          \* the last Thread member that returned
  njoin           \* number of join calls that returned

tvars == <<tpc, joinable, handle, threads, tcall, tlast, njoin>>

VARIABLES
  aphase,         \* "setup": no call made yet; "run": fetch_add calls made
  cell,           \* the integer at ptr
  cell0,          \* the integer at ptr before the calls
  addend,         \* per call: the value argument
  apc,            \* per call: "load", "cas" or "done"
  expected,       \* per call: the local expected
  ret,            \* per call: the value returned
  before          \* per call: the integer at ptr right before its own write

xvars == <<aphase, cell, cell0, addend, apc, expected, ret, before>>

vars == <<avars, tvars, xvars>>

Empty == [a \in {} |-> 0]

Call(op, addr, len, access) ==
  [op |-> op, addr |-> addr, len |-> len, access |-> access]

Init ==
  /\ pc = "none"
  /\ base = 0
  /\ reserved_size = 0
  /\ page_size = 0
  /\ alignment = 0
  /\ prot = Empty
  /\ mem = Empty
  /\ calls = <<>>
  /\ span = [addr |-> 0, len |-> 0]
  /\ last = [op |-> "none", size |-> 0]
  /\ nops = 0
  /\ repeated = FALSE
  /\ results = <<>>
  /\ tpc = "none"
  /\ joinable = FALSE
  /\ handle = 0
  /\ threads = <<>>
  /\ tcall = "none"
  /\ tlast = "none"
  /\ njoin = 0
  /\ aphase = "setup"
  /\ cell = 0
  /\ cell0 = 0
  /\ addend = <<>>
  /\ apc = <<>>
  /\ expected = <<>>
  /\ ret = <<>>
  /\ before = <<>>

(* ------------------------------ handlers ------------------------------- *)
Min(a, b) == IF a <= b THEN a ELSE b

\* abort (): the process ends and its address space with it; the log ends
\* with the step that failed
Abort(log) ==
  /\ pc' = "aborted"
  /\ calls' = log
  /\ base' = 0
  /\ reserved_size' = 0
  /\ page_size' = 0
  /\ alignment' = 0
  /\ prot' = Empty
  /\ mem' = Empty
  /\ span' = [addr |-> 0, len |-> 0]
  /\ UNCHANGED <<last, nops, repeated>>

\* a store or load without access rights: the kernel ends the process
Fault(log) ==
  /\ pc' = "faulted"
  /\ calls' = log
  /\ base' = 0
  /\ reserved_size' = 0
  /\ page_size' = 0
  /\ alignment' = 0
  /\ prot' = Empty
  /\ mem' = Empty
  /\ span' = [addr |-> 0, len |-> 0]
  /\ UNCHANGED <<last, nops, repeated>>

\* the padded size computed without the alignment slack
padded_reserve_size_nopad(aligned, al) == aligned

\* const size_t padded_reserve_size = aligned_reserve_size + alignment
padded_reserve_size(aligned, al) == Wrap(aligned + al)

\* the slack region left writable
slack_access_rw == "RW"

\* the access the slack region is left with once the adjustment is written
slack_access == "Read"

\* constructor, alignment <= page_size: the mmap result becomes base
construct_direct(rs, ps, al, raw, f) ==
  LET aligned == align_to(rs, ps)
      c1 == Call("mmap", raw, aligned, "None")
  IN IF f = 1 \/ ~mmap_valid(prot, raw, aligned, ps)
     THEN [ok |-> FALSE, fault |-> FALSE, log |-> <<c1>>, res |-> <<FALSE>>]
     ELSE [ok |-> TRUE, fault |-> FALSE, log |-> <<c1>>, res |-> <<TRUE>>,
           base |-> raw,
           prot |-> mmap(prot, raw, aligned, ps), mem |-> mem,
           span |-> [addr |-> raw, len |-> aligned]]

\* the over-aligned constructor storing the adjustment after the downgrade
construct_padded_late_store(rs, ps, al, raw, f) ==
  LET aligned == align_to(rs, ps)
      padded == padded_reserve_size(aligned, al)
      c1 == Call("mmap", raw, padded, "None")
      p1 == mmap(prot, raw, padded, ps)
      up == up_aligned_addr(raw, al)
      diff == Wrap(up - raw)
      c2 == Call("mprotect", raw, diff, "RW")
      p2 == mprotect(p1, raw, diff, "RW", ps)
      c3 == Call("mprotect", raw, diff, slack_access)
      p3 == mprotect(p2, raw, diff, slack_access, ps)
      c4 == Call("store", Wrap(up - 1), diff, "-")
      m4 == store(mem, Wrap(up - 1), diff, ps)
  IN IF f = 1 \/ ~mmap_valid(prot, raw, padded, ps)
       THEN [ok |-> FALSE, fault |-> FALSE, log |-> <<c1>>, res |-> <<FALSE>>]
     ELSE IF f = 2 \/ ~mprotect_valid(p1, raw, diff, ps)
       THEN [ok |-> FALSE, fault |-> FALSE, log |-> <<c1, c2>>,
             res |-> <<TRUE, FALSE>>]
     ELSE IF f = 3 \/ ~mprotect_valid(p2, raw, diff, ps)
       THEN [ok |-> FALSE, fault |-> FALSE, log |-> <<c1, c2, c3>>,
             res |-> <<TRUE, TRUE, FALSE>>]
     ELSE IF ~Writable(p3, Wrap(up - 1))
       THEN [ok |-> FALSE, fault |-> TRUE, log |-> <<c1, c2, c3, c4>>,
             res |-> <<TRUE, TRUE, TRUE, FALSE>>]
     ELSE [ok |-> TRUE, fault |-> FALSE, log |-> <<c1, c2, c3, c4>>,
           res |-> <<TRUE, TRUE, TRUE, TRUE>>, base |-> up,
           prot |-> p3, mem |-> m4,
           span |-> [addr |-> raw, len |-> padded]]

\* constructor, alignment > page_size: reserve with slack, align up, store
\* the adjustment in the word below the aligned address
construct_padded(rs, ps, al, raw, f) ==
  LET aligned == align_to(rs, ps)
      padded == padded_reserve_size(aligned, al)
      c1 == Call("mmap", raw, padded, "None")
      p1 == mmap(prot, raw, padded, ps)
      up == up_aligned_addr(raw, al)
      diff == Wrap(up - raw)
      c2 == Call("mprotect", raw, diff, "RW")
      p2 == mprotect(p1, raw, diff, "RW", ps)
      c3 == Call("store", Wrap(up - 1), diff, "-")
      m3 == store(mem, Wrap(up - 1), diff, ps)
      c4 == Call("mprotect", raw, diff, slack_access)
      p4 == mprotect(p2, raw, diff, slack_access, ps)
  IN IF f = 1 \/ ~mmap_valid(prot, raw, padded, ps)
       THEN [ok |-> FALSE, fault |-> FALSE, log |-> <<c1>>, res |-> <<FALSE>>]
     ELSE IF f = 2 \/ ~mprotect_valid(p1, raw, diff, ps)
       THEN [ok |-> FALSE, fault |-> FALSE, log |-> <<c1, c2>>,
             res |-> <<TRUE, FALSE>>]
     ELSE IF ~Writable(p2, Wrap(up - 1))
       THEN [ok |-> FALSE, fault |-> TRUE, log |-> <<c1, c2, c3>>,
             res |-> <<TRUE, TRUE, FALSE>>]
     ELSE IF f = 3 \/ ~mprotect_valid(p2, raw, diff, ps)
       THEN [ok |-> FALSE, fault |-> FALSE, log |-> <<c1, c2, c3, c4>>,
             res |-> <<TRUE, TRUE, TRUE, FALSE>>]
     ELSE [ok |-> TRUE, fault |-> FALSE, log |-> <<c1, c2, c3, c4>>,
           res |-> <<TRUE, TRUE, TRUE, TRUE>>, base |-> up,
           prot |-> p4, mem |-> m3,
           span |-> [addr |-> raw, len |-> padded]]

\* OSAllocator::OSAllocator (reserve_size, page_size, alignment); raw is the
\* address mmap answers with, f the OS call the kernel refuses
OSAllocator_ctor(rs, ps, al, raw, f) ==
  /\ pc = "none"
  /\ UNCHANGED <<tvars, xvars>>
  /\ LET r == IF al <= ps THEN construct_direct(rs, ps, al, raw, f)
                          ELSE construct_padded(rs, ps, al, raw, f)
     IN /\ results' = r.res
        /\ IF r.ok
           THEN /\ pc' = "live"
                /\ base' = r.base
                /\ reserved_size' = rs
                /\ page_size' = ps
                /\ alignment' = al
                /\ prot' = r.prot
                /\ mem' = r.mem
                /\ calls' = r.log
                /\ span' = r.span
                /\ last' = [op |-> "construct", size |-> rs]
                /\ nops' = 0
                /\ repeated' = FALSE
           ELSE IF r.fault THEN Fault(r.log) ELSE Abort(r.log)

\* the start of the window rounded down from the byte below base
base_addr_prev == BitAnd(Wrap(base - 1), BitNot(Wrap(page_size - 1)))

\* reinterpret_cast <uintptr_t> (base) & ~(page_size - 1)
base_addr == BitAnd(base, BitNot(Wrap(page_size - 1)))

\* the end of the window rounded down instead of up
end_addr_down(size) == BitAnd(Wrap(base + size), BitNot(Wrap(page_size - 1)))

\* the end of the window one page too far
end_addr_extra(size) == Wrap(align_to(Wrap(base + size), page_size) + page_size)

\* Detail::align_to (reinterpret_cast <uintptr_t> (base) + size, page_size)
end_addr(size) == align_to(Wrap(base + size), page_size)

\* map taking size as an increment: the window starts where the committed
\* prefix of the region ends
map_call_grow(size) ==
  LET committed == {a \in DOMAIN prot :
                      a >= base /\ \A b \in base..a : Writable(prot, b)}
      start == base + Cardinality(committed)
  IN Call("mprotect", start,
          Wrap(align_to(Wrap(start + size), page_size) - start), "RW")

\* mprotect (base_addr, end_addr - base_addr, PROT_READ | PROT_WRITE)
map_call(size) ==
  Call("mprotect", base_addr, Wrap(end_addr(size) - base_addr), "RW")

\* unmap stopping at the last whole page below base + size
unmap_call_short(size) ==
  Call("mprotect", base_addr,
       Wrap(BitAnd(Wrap(base + size), BitNot(Wrap(page_size - 1))) - base_addr),
       "None")

\* unmap revoking write access only
unmap_call_readonly(size) ==
  Call("mprotect", base_addr, Wrap(end_addr(size) - base_addr), "Read")

\* mprotect (base_addr, end_addr - base_addr, PROT_NONE)
unmap_call(size) ==
  Call("mprotect", base_addr, Wrap(end_addr(size) - base_addr), "None")

\* map and unmap going on after a failed mprotect
protect_step_ignore(c, opname, size, f) ==
  /\ prot' = IF f = 1 \/ ~mprotect_valid(prot, c.addr, c.len, page_size)
             THEN prot
             ELSE mprotect(prot, c.addr, c.len, c.access, page_size)
  /\ results' = <<~(f = 1 \/ ~mprotect_valid(prot, c.addr, c.len, page_size))>>
  /\ calls' = <<c>>
  /\ last' = [op |-> opname, size |-> size]
  /\ nops' = Min(nops + 1, OpsCap)
  /\ repeated' = (last = [op |-> opname, size |-> size])
  /\ UNCHANGED <<pc, base, reserved_size, page_size, alignment, mem, span>>

\* unmap giving its window back to the kernel with munmap
protect_step_munmap(c, opname, size, f) ==
  IF f = 1 \/ ~mprotect_valid(prot, c.addr, c.len, page_size)
  THEN Abort(<<c>>) /\ results' = <<FALSE>>
  ELSE /\ prot' = IF opname = "unmap"
                  THEN munmap(prot, c.addr, c.len, page_size)
                  ELSE mprotect(prot, c.addr, c.len, c.access, page_size)
       /\ calls' = IF opname = "unmap"
                   THEN <<Call("munmap", c.addr, c.len, "-")>>
                   ELSE <<c>>
       /\ results' = <<TRUE>>
       /\ last' = [op |-> opname, size |-> size]
       /\ nops' = Min(nops + 1, OpsCap)
       /\ repeated' = (last = [op |-> opname, size |-> size])
       /\ UNCHANGED <<pc, base, reserved_size, page_size, alignment, mem, span>>

\* the one mprotect of map and of unmap, or abort () when it fails
protect_step(c, opname, size, f) ==
  IF f = 1 \/ ~mprotect_valid(prot, c.addr, c.len, page_size)
  THEN Abort(<<c>>) /\ results' = <<FALSE>>
  ELSE /\ prot' = mprotect(prot, c.addr, c.len, c.access, page_size)
       /\ calls' = <<c>>
       /\ results' = <<TRUE>>
       /\ last' = [op |-> opname, size |-> size]
       /\ nops' = Min(nops + 1, OpsCap)
       /\ repeated' = (last = [op |-> opname, size |-> size])
       /\ UNCHANGED <<pc, base, reserved_size, page_size, alignment, mem, span>>

\* OSAllocator::map (size), 0 < size <= reserved_size
map(size, f) ==
  /\ pc = "live"
  /\ UNCHANGED <<tvars, xvars>>
  /\ size \in 1..reserved_size
  /\ protect_step(map_call(size), "map", size, f)

\* OSAllocator::unmap (size), 0 < size <= reserved_size
unmap(size, f) ==
  /\ pc = "live"
  /\ UNCHANGED <<tvars, xvars>>
  /\ size \in 1..reserved_size
  /\ protect_step(unmap_call(size), "unmap", size, f)

\* the destructor releasing from base in both paths
release_call_noadj ==
  LET aligned == align_to(reserved_size, page_size)
  IN IF alignment <= page_size
     THEN Call("munmap", base, aligned, "-")
     ELSE Call("munmap", base, Wrap(aligned + alignment), "-")

\* the munmap of the destructor: base itself, or base minus the adjustment
\* read from the word below base
release_call ==
  LET aligned == align_to(reserved_size, page_size)
  IN IF alignment <= page_size
     THEN Call("munmap", base, aligned, "-")
     ELSE Call("munmap", Wrap(base - load(mem, Wrap(base - 1))),
               Wrap(aligned + alignment), "-")

\* OSAllocator::~OSAllocator ()
OSAllocator_dtor(f) ==
  /\ pc = "live"
  /\ UNCHANGED <<tvars, xvars>>
  /\ LET c == release_call
         rd == Call("load", Wrap(base - 1), load(mem, Wrap(base - 1)), "-")
         log == IF alignment <= page_size THEN <<c>> ELSE <<rd, c>>
     IN IF alignment > page_size /\ ~Readable(prot, Wrap(base - 1))
          THEN Fault(<<rd>>) /\ results' = <<FALSE>>
        ELSE IF f = 1 \/ ~munmap_valid(c.addr, c.len, page_size)
          THEN Abort(log) /\ results' = [i \in DOMAIN log |-> i < Len(log)]
        ELSE /\ pc' = "none"
             /\ results' = [i \in DOMAIN log |-> TRUE]
             /\ prot' = munmap(prot, c.addr, c.len, page_size)
             /\ mem' = munmap(mem, c.addr, c.len, page_size)
             /\ calls' = log
             /\ base' = 0
             /\ reserved_size' = 0
             /\ page_size' = 0
             /\ alignment' = 0
             /\ last' = [op |-> "destruct", size |-> 0]
             /\ nops' = 0
             /\ repeated' = FALSE
             /\ UNCHANGED span

\* the owner writes v to word off of the logical region; a store to a page
\* without write access is a fault that ends the process
client_store(off, v) ==
  /\ pc = "live"
  /\ UNCHANGED <<tvars, xvars>>
  /\ off \in StoreOffsets(reserved_size)
  /\ IF Writable(prot, base + off)
     THEN /\ mem' = store(mem, base + off, v, page_size)
          /\ UNCHANGED <<pc, base, reserved_size, page_size, alignment, prot,
                         calls, span, last, nops, repeated, results>>
     ELSE Fault(calls) /\ UNCHANGED results

Next ==
  \/ \E rs \in ReserveSizes, ps \in PageSizes, al \in Alignments, f \in FailPoints :
       \E raw \in RawAddrs(ps) : OSAllocator_ctor(rs, ps, al, raw, f)
  \/ \E size \in ReserveSizes, f \in 0..1 : map(size, f)
  \/ \E size \in ReserveSizes, f \in 0..1 : unmap(size, f)
  \/ \E f \in 0..1 : OSAllocator_dtor(f)
  \/ \E off \in 0..(MaxReserve - 1), v \in StoreValues : client_store(off, v)

Spec == Init /\ [][Next]_vars

(* ------------------------------- Thread -------------------------------- *)
Funcs == {"f", "g"}
Args == {0, 1}

\* abort () in a Thread member
ThreadAbort(member) ==
  /\ tpc' = "aborted"
  /\ tcall' = member
  /\ UNCHANGED <<joinable, handle, threads, tlast, njoin>>

\* Thread::Thread ()
Thread_ctor ==
  /\ tpc = "none"
  /\ tpc' = "live"
  /\ handle' = 0
  /\ joinable' = FALSE
  /\ tcall' = "ctor"
  /\ tlast' = "ctor"
  /\ UNCHANGED <<threads, njoin, avars, xvars>>

\* Thread::create (func, arg); ok: pthread_create returned 0
create(func, arg, ok) ==
  /\ tpc = "live"
  /\ Len(threads) < MaxCreates
  /\ UNCHANGED <<avars, xvars>>
  /\ IF joinable \/ ~ok
     THEN ThreadAbort("create")
     ELSE /\ threads' = Append(threads,
                               [func |-> func, arg |-> arg, state |-> "running"])
          /\ handle' = Len(threads) + 1
          /\ joinable' = TRUE
          /\ tcall' = "create"
          /\ tlast' = "create"
          /\ UNCHANGED <<tpc, njoin>>

\* the started function returns
thread_run(t) ==
  /\ t \in DOMAIN threads
  /\ threads[t].state = "running"
  /\ tpc # "aborted"
  /\ threads' = [threads EXCEPT ![t].state = "done"]
  /\ UNCHANGED <<tpc, joinable, handle, tcall, tlast, njoin, avars, xvars>>

\* join entered without the test of joinable
join_guard_none == TRUE

\* the test of joinable in join: !joinable aborts
join_guard == joinable

\* Thread::join () up to the call of pthread_join
join ==
  /\ tpc = "live"
  /\ UNCHANGED <<avars, xvars>>
  /\ IF ~join_guard
     THEN ThreadAbort("join")
     ELSE /\ tpc' = "joining"
          /\ tcall' = "join"
          /\ UNCHANGED <<joinable, handle, threads, tlast, njoin>>

\* pthread_join (handle) names a thread that was started and not yet joined
pthread_join_valid(h) == h \in DOMAIN threads /\ threads[h].state # "joined"

\* pthread_join returning while the function still runs
thread_finished_nowait(h) == TRUE

\* pthread_join returns once the thread's function has returned
thread_finished(h) == threads[h].state = "done"

\* Thread::join () from the return of pthread_join; joining a handle that
\* names no joinable thread is undefined: ok chooses between an error and
\* a return of 0
join_return(ok) ==
  /\ tpc = "joining"
  /\ UNCHANGED <<avars, xvars>>
  /\ IF pthread_join_valid(handle)
     THEN /\ thread_finished(handle)
          /\ threads' = [threads EXCEPT ![handle].state = "joined"]
          /\ joinable' = FALSE
          /\ tpc' = "live"
          /\ tlast' = "join"
          /\ njoin' = njoin + 1
          /\ UNCHANGED <<handle, tcall>>
     ELSE IF ok
     THEN /\ joinable' = FALSE
          /\ tpc' = "live"
          /\ tlast' = "join"
          /\ njoin' = njoin + 1
          /\ UNCHANGED <<handle, tcall, threads>>
     ELSE ThreadAbort("join")

\* the destructor never aborting
dtor_aborts_never == FALSE

\* Thread::~Thread (): if (joinable) abort ()
dtor_aborts == joinable

\* Thread::~Thread ()
Thread_dtor ==
  /\ tpc = "live"
  /\ UNCHANGED <<avars, xvars>>
  /\ IF dtor_aborts
     THEN ThreadAbort("dtor")
     ELSE /\ tpc' = "none"
          /\ tcall' = "dtor"
          /\ UNCHANGED <<joinable, handle, threads, tlast, njoin>>

NextThread ==
  \/ Thread_ctor
  \/ \E func \in Funcs, arg \in Args, ok \in BOOLEAN : create(func, arg, ok)
  \/ \E t \in 1..MaxCreates : thread_run(t)
  \/ join
  \/ \E ok \in BOOLEAN : join_return(ok)
  \/ Thread_dtor

\* the scheduler lets a pthread_join that can return do so
SpecThread ==
  Init /\ [][NextThread]_vars /\ WF_vars(\E ok \in BOOLEAN : join_return(ok))

(* ------------------------------- Atomics ------------------------------- *)
AtomMod == 2^AtomBits
Adders == 1..NumAdders
StartValues == {0, AtomMod - 1}
Addends == {1, AtomMod - 1}

\* the exchange done as a plain store
interlocked_store(cur, desired, comparand) == desired

\* _InterlockedCompareExchange8/16 (ptr, desired, comparand): what ptr holds
\* afterwards; the call returns what it held before
interlocked_cas(cur, desired, comparand) ==
  IF cur = comparand THEN desired ELSE cur

\* NumAdders threads call fetch_add (ptr, addend[t]) on the same integer
fetch_add_calls(v0, vals) ==
  /\ aphase = "setup"
  /\ aphase' = "run"
  /\ cell' = v0
  /\ cell0' = v0
  /\ addend' = vals
  /\ apc' = [t \in Adders |-> "load"]
  /\ expected' = [t \in Adders |-> 0]
  /\ ret' = [t \in Adders |-> 0]
  /\ before' = [t \in Adders |-> 0]
  /\ UNCHANGED <<avars, tvars>>

\* T expected = load (ptr)
fetch_add_load(t) ==
  /\ aphase = "run"
  /\ apc[t] = "load"
  /\ expected' = [expected EXCEPT ![t] = cell]
  /\ apc' = [apc EXCEPT ![t] = "cas"]
  /\ UNCHANGED <<aphase, cell, cell0, addend, ret, before, avars, tvars>>

\* one turn of while (!compare_exchange (ptr, &expected, expected + value)):
\* on success the loop ends and expected is returned, on failure expected
\* takes the value observed
fetch_add_cas(t) ==
  /\ aphase = "run"
  /\ apc[t] = "cas"
  /\ LET desired == (expected[t] + addend[t]) % AtomMod
         old == cell
     IN /\ cell' = interlocked_cas(cell, desired, expected[t])
        /\ before' = [before EXCEPT ![t] = old]
        /\ IF old = expected[t]
           THEN /\ apc' = [apc EXCEPT ![t] = "done"]
                /\ ret' = [ret EXCEPT ![t] = expected[t]]
                /\ UNCHANGED expected
           ELSE /\ expected' = [expected EXCEPT ![t] = old]
                /\ UNCHANGED <<apc, ret>>
  /\ UNCHANGED <<aphase, cell0, addend, avars, tvars>>

NextAtomics ==
  \/ \E v0 \in StartValues, vals \in [Adders -> Addends] : fetch_add_calls(v0, vals)
  \/ \E t \in Adders : fetch_add_load(t)
  \/ \E t \in Adders : fetch_add_cas(t)

SpecAtomics == Init /\ [][NextAtomics]_vars

(* ------------------------ vocabulary of the claims --------------------- *)
round_up(x, m) == ((x + m - 1) \div m) * m

MaxOf(a, b) == IF a >= b THEN a ELSE b

Live == pc = "live"

OverAligned == alignment > page_size

\* the addresses of the pages that intersect [lo, lo + size)
Touched(lo, size, ps) == UNION {PageOf(b, ps) : b \in Range(lo, size)}

\* [base, base + round_up(reserved_size, page_size))
Logical == Range(base, round_up(reserved_size, page_size))

\* [raw, base): the leading slack of an over-aligned reservation
Slack == Range(span.addr, base - span.addr)

Releases == {i \in DOMAIN calls : calls[i].op = "munmap"}

(* -------------------------------- C1 ----------------------------------- *)
\* C1: after construct, base is non-null and a multiple of
\* max(page_size, alignment), in the direct and in the over-aligned path.
C1_BaseAligned ==
  Live => /\ base # 0
          /\ base % MaxOf(page_size, alignment) = 0

\* an over-aligned reservation whose mmap address was not itself aligned
C1_Witness ==
  /\ Live
  /\ OverAligned
  /\ span.addr % alignment # 0
  /\ base % alignment = 0

(* -------------------------------- C2 ----------------------------------- *)
\* C2: a completed destruct has issued exactly one release call, with the
\* address mmap returned at construct and the length passed to it, and no
\* address stays reserved whenever no object exists.
C2_ExactRelease ==
  /\ (pc = "none" /\ last.op = "destruct") =>
        /\ Cardinality(Releases) = 1
        /\ \A i \in Releases : /\ calls[i].addr = span.addr
                               /\ calls[i].len = span.len
  /\ (pc = "none") => DOMAIN prot = {} /\ DOMAIN mem = {}

\* an over-aligned reservation destroyed: the adjustment was read and the
\* release starts below the base the object had
C2_Witness ==
  /\ pc = "none"
  /\ last.op = "destruct"
  /\ Len(calls) = 2
  /\ calls[1].op = "load"
  /\ calls[1].len > 0
  /\ calls[2].op = "munmap"
  /\ calls[2].addr = span.addr
  /\ calls[2].addr = calls[1].addr + 1 - calls[1].len

(* -------------------------------- C3 ----------------------------------- *)
\* C3: the reserved span is round_up(reserve_size, page_size) long and starts
\* at base when alignment <= page_size; it is alignment longer and starts at
\* base minus the stored adjustment when alignment > page_size.
C3_SpanExtent ==
  Live =>
    /\ span.len = IF OverAligned
                  THEN round_up(reserved_size, page_size) + alignment
                  ELSE round_up(reserved_size, page_size)
    /\ span.addr = IF OverAligned
                   THEN base - load(mem, base - 1)
                   ELSE base
    /\ DOMAIN prot = Range(span.addr, span.len)

\* reserve_size = page_size + 1 reserves two pages, plus the alignment
C3_Witness ==
  /\ Live
  /\ OverAligned
  /\ reserved_size = page_size + 1
  /\ span.len = 2 * page_size + alignment
  /\ span.addr < base

(* -------------------------------- C4 ----------------------------------- *)
\* C4: after map(size) every page intersecting [base, base + size) is
\* read+write, whatever its access was before.
C4_MapGrantsReadWrite ==
  (Live /\ last.op = "map") =>
     \A a \in Touched(base, last.size, page_size) : Writable(prot, a)

\* a map of a size that ends inside a page, after earlier map/unmap calls
C4_Witness ==
  /\ Live
  /\ last.op = "map"
  /\ nops >= 2
  /\ last.size % page_size # 0
  /\ Writable(prot, base + last.size)

(* -------------------------------- C5 ----------------------------------- *)
\* C5: map(size) and unmap(size) protect exactly
\* [base, round_up(base + size, page_size)) and leave the access of every
\* address outside the pages intersecting [base, base + size) as it was.
C5_Frame ==
  [][(Live /\ pc' = "live" /\ last'.op \in {"map", "unmap"}) =>
       /\ \A a \in DOMAIN prot :
            a \notin Touched(base, last'.size, page_size) => prot'[a] = prot[a]
       /\ Len(calls') = 1
       /\ calls'[1].op = "mprotect"
       /\ calls'[1].addr = base
       /\ calls'[1].addr + calls'[1].len = round_up(base + last'.size, page_size)
    ]_vars

\* reserve_size = page_size + 1 and map(page_size): the second page is
\* still without access
C5_Witness ==
  /\ Live
  /\ last = [op |-> "map", size |-> page_size]
  /\ reserved_size = page_size + 1
  /\ prot[base] = "RW"
  /\ prot[base + page_size] = "None"

(* -------------------------------- C6 ----------------------------------- *)
\* C6: while an over-aligned reservation lives, its whole leading slack
\* [base - diff, base) is exactly read-only and the word below base holds
\* the diff written at construct.
C6_SlackReadOnly ==
  (Live /\ OverAligned) =>
     /\ Slack # {}
     /\ \A a \in Slack : a \in DOMAIN prot /\ prot[a] = "Read"
     /\ (base - 1) \in Slack
     /\ load(mem, base - 1) = base - span.addr

\* an over-aligned reservation after several map/unmap calls
C6_Witness ==
  /\ Live
  /\ OverAligned
  /\ nops >= 2
  /\ last.op = "map"
  /\ last.size = reserved_size
  /\ prot[base - 1] = "Read"

(* -------------------------------- C7 ----------------------------------- *)
\* C7: unmap(size) protects the window map(size) protects and leaves each of
\* its pages without access; it releases nothing; and map(size) then
\* unmap(size) on a fresh reservation leaves the whole logical region
\* without access.
C7_UnmapState ==
  (Live /\ last.op = "unmap") =>
     /\ \A a \in Touched(base, last.size, page_size) :
          a \in DOMAIN prot /\ prot[a] = "None"
     /\ calls = <<[map_call(last.size) EXCEPT !.access = "None"]>>
     /\ calls[1].addr = base
     /\ calls[1].addr + calls[1].len = round_up(base + last.size, page_size)
     /\ Releases = {}
     /\ DOMAIN prot = Range(span.addr, span.len)

C7_MapThenUnmap ==
  (Live /\ nops = 1 /\ last.op = "map" /\ pc' = "live"
     /\ last' = [op |-> "unmap", size |-> last.size]) =>
       \A a \in Logical : prot'[a] = "None"

C7_Unmap == []C7_UnmapState /\ [][C7_MapThenUnmap]_vars

\* an unmap after a map that leaves the logical region without access
C7_Witness ==
  /\ Live
  /\ last.op = "unmap"
  /\ nops >= 2
  /\ DOMAIN mem \cap Logical # {}
  /\ \A a \in Logical : prot[a] = "None"

(* -------------------------------- C8 ----------------------------------- *)
\* C8: after unmap(size) no page of the window retains physical backing or
\* the contents written to it.
C8_UnmapDiscardsBacking ==
  (Live /\ last.op = "unmap") =>
     \A a \in Touched(base, last.size, page_size) : a \notin DOMAIN mem

(* -------------------------------- C9 ----------------------------------- *)
\* C9: a fresh reservation has its whole logical region without access and
\* without backing; afterwards every logical page is either without access
\* or read+write, never read-only; it becomes read+write only by a map whose
\* window contains it and loses access only by an unmap whose window
\* contains it.
C9_PageStates ==
  Live =>
    /\ \A a \in Logical : a \in DOMAIN prot /\ prot[a] \in {"None", "RW"}
    /\ (last.op = "construct") =>
          \A a \in Logical : prot[a] = "None" /\ a \notin DOMAIN mem

C9_PageMoves ==
  (Live /\ pc' = "live") =>
     \A a \in Logical :
        /\ (prot[a] = "None" /\ prot'[a] # "None") =>
              /\ prot'[a] = "RW"
              /\ last'.op = "map"
              /\ a \in Touched(base, last'.size, page_size)
        /\ (prot[a] = "RW" /\ prot'[a] # "RW") =>
              /\ prot'[a] = "None"
              /\ last'.op = "unmap"
              /\ a \in Touched(base, last'.size, page_size)

C10_MapIdempotent ==
  [][(Live /\ pc' = "live" /\ last.op = "map" /\ last' = last) =>
        prot' = prot]_vars

\* the second of two consecutive map calls with the same size has returned
C10_Witness ==
  /\ Live
  /\ last.op = "map"
  /\ repeated
  /\ \E a \in Logical : prot[a] = "None"

(* -------------------------------- C11 ---------------------------------- *)
OSCalls == {"mmap", "mprotect", "munmap"}

\* C11: an OS call that reports failure is the last step its handler takes
\* and ends the process at once (no retry, no further call, no return); the
\* process is ended by abort only after an OS call that failed.
C11_FailureEndsProcess ==
  /\ Len(results) = Len(calls)
  /\ \A i \in DOMAIN calls :
        (calls[i].op \in OSCalls /\ ~results[i]) =>
           /\ pc = "aborted"
           /\ i = Len(calls)
  /\ (pc = "aborted") =>
        /\ calls # <<>>
        /\ calls[Len(calls)].op \in OSCalls
        /\ ~results[Len(calls)]

C11_FatalFailure == []C11_FailureEndsProcess /\ [][pc # "aborted"]_vars

\* the constructor aborted by the failure of its last mprotect
C11_Witness ==
  /\ pc = "aborted"
  /\ Len(calls) = 4
  /\ calls[4].op = "mprotect"
  /\ calls[4].access = "Read"
  /\ ~results[4]
  /\ results[3]

(* -------------------------------- C12 ---------------------------------- *)
\* C12: map and unmap change neither base, reserved_size, page_size,
\* alignment nor the stored adjustment word, issue no reserve or release
\* call, and leave the extent of the reserved span as it was.
C12_MapUnmapFrame ==
  [][(Live /\ pc' = "live" /\ last'.op \in {"map", "unmap"}) =>
        /\ base' = base
        /\ reserved_size' = reserved_size
        /\ page_size' = page_size
        /\ alignment' = alignment
        /\ load(mem', base - 1) = load(mem, base - 1)
        /\ DOMAIN prot' = DOMAIN prot
        /\ span' = span
        /\ \A i \in DOMAIN calls' : calls'[i].op \notin {"mmap", "munmap"}
    ]_vars

\* an over-aligned reservation after an unmap that followed other calls
C12_Witness ==
  /\ Live
  /\ OverAligned
  /\ last.op = "unmap"
  /\ nops >= 2
  /\ load(mem, base - 1) = base - span.addr
  /\ DOMAIN prot = Range(span.addr, span.len)

(* -------------------------------- C16 ---------------------------------- *)
\* C16 as stated: in the over-aligned path base is
\* round_up(raw + alignment, alignment) and diff = base - raw.
C16_BaseIsRoundUp ==
  (Live /\ OverAligned) =>
     /\ base = round_up(span.addr + alignment, alignment)
     /\ load(mem, base - 1) = base - span.addr

\* C16 amended: in the over-aligned path base is raw + alignment rounded
\* down to a multiple of alignment, that is the smallest multiple of
\* alignment strictly above raw, and diff = base - raw.
C16_BaseIsRoundDown ==
  (Live /\ OverAligned) =>
     /\ base = ((span.addr + alignment) \div alignment) * alignment
     /\ base % alignment = 0
     /\ base > span.addr
     /\ base - alignment <= span.addr
     /\ load(mem, base - 1) = base - span.addr

\* an over-aligned reservation whose mmap address is not a multiple of the
\* alignment: base is below raw + alignment
C16_Witness ==
  /\ Live
  /\ OverAligned
  /\ span.addr % alignment # 0
  /\ base < span.addr + alignment
  /\ base # round_up(span.addr + alignment, alignment)

(* -------------------------------- C17 ---------------------------------- *)
CtorOrder == <<"mmap", "mprotect", "store", "mprotect">>
CtorAccess == <<"None", "RW", "-", "Read">>

\* C17: the over-aligned constructor issues mmap, mprotect read+write, the
\* store of diff, mprotect read-only, in this order and nothing else, and
\* base is set only after the last of them.
C17_ConstructOrder ==
  /\ (Live /\ OverAligned /\ last.op = "construct") =>
        calls = << Call("mmap", span.addr,
                        round_up(reserved_size, page_size) + alignment, "None"),
                   Call("mprotect", span.addr, base - span.addr, "RW"),
                   Call("store", base - 1, base - span.addr, "-"),
                   Call("mprotect", span.addr, base - span.addr, "Read") >>
  /\ (pc \in {"aborted", "faulted"} /\ last.op \in {"none", "destruct"}) =>
        /\ Len(calls) <= 4
        /\ \A i \in DOMAIN calls : /\ calls[i].op = CtorOrder[i]
                                   /\ calls[i].access = CtorAccess[i]
        /\ \A i \in DOMAIN calls : i > 1 => calls[i].len = calls[2].len
  /\ (pc # "live") => base = 0

\* a freshly built over-aligned reservation with its four steps logged
C17_Witness ==
  /\ Live
  /\ OverAligned
  /\ last.op = "construct"
  /\ Len(calls) = 4
  /\ calls[3].op = "store"
  /\ prot[calls[3].addr] = "Read"

(* -------------------------------- C19 ---------------------------------- *)
\* C19: in the over-aligned path raw < base <= raw + alignment, diff is a
\* positive multiple of page_size, the adjustment word lies in the slack the
\* constructor made writable, and the logical region lies in the reserved
\* span.
C19_InsideReservation ==
  (Live /\ OverAligned) =>
     /\ span.addr < base
     /\ base <= span.addr + alignment
     /\ (base - span.addr) % page_size = 0
     /\ (base - 1) \in Slack
     /\ Slack \subseteq Range(span.addr, span.len)
     /\ Logical \subseteq Range(span.addr, span.len)
     /\ (last.op = "construct") =>
           \A i \in DOMAIN calls :
              calls[i].op = "store" =>
                 calls[i].addr \in Range(calls[2].addr, calls[2].len)

\* an over-aligned reservation from an unaligned mmap address: the logical
\* region ends below the end of the span
C19_Witness ==
  /\ Live
  /\ OverAligned
  /\ last.op = "construct"
  /\ span.addr % alignment # 0
  /\ base + round_up(reserved_size, page_size) < span.addr + span.len

(* -------------------------------- C20 ---------------------------------- *)
\* the part of the span behind the logical region
Trailing == {a \in DOMAIN prot : a >= base + round_up(reserved_size, page_size)}

\* C20: the window map and unmap protect lies inside the logical region, so
\* it holds no page of the leading or of the trailing slack, and the
\* trailing slack stays without access while the reservation lives.
C20_WindowInsideRegion ==
  Live =>
    /\ (last.op \in {"map", "unmap"}) =>
          /\ calls[1].op = "mprotect"
          /\ calls[1].len > 0
          /\ Range(calls[1].addr, PageUp(calls[1].len, page_size)) \subseteq Logical
    /\ \A a \in Trailing : prot[a] = "None"

\* the whole region mapped in a reservation that has leading and trailing
\* slack
C20_Witness ==
  /\ Live
  /\ OverAligned
  /\ last = [op |-> "map", size |-> reserved_size]
  /\ nops >= 2
  /\ Trailing # {}
  /\ \A a \in Logical : prot[a] = "RW"

(* -------------------------------- C13 ---------------------------------- *)
\* C13: join returns at most once per create: it goes on to pthread_join
\* only when the handle is joinable and leaves it non-joinable; a join on a
\* handle that was never created on, or a second join without a create in
\* between, aborts.
C13_JoinOncePerCreate ==
  /\ njoin <= Len(threads)
  /\ (tpc \in {"live", "joining"}) =>
        /\ joinable => Len(threads) = njoin + 1
        /\ ~joinable => Len(threads) = njoin
  /\ (tpc = "joining") => joinable
  /\ (tpc = "live" /\ tlast = "join") => ~joinable
  /\ (tpc = "aborted" /\ tcall = "join") => ~joinable

\* a second join without a create in between has aborted
C13_Witness ==
  /\ tpc = "aborted"
  /\ tcall = "join"
  /\ tlast = "join"
  /\ njoin = 1
  /\ Len(threads) = 1

(* -------------------------------- C14 ---------------------------------- *)
\* C14: the destructor aborts exactly when a thread was created on the
\* object and not joined, that is when the last member that returned is
\* create; a never-created or joined Thread is destroyed without abort.
C14_DestroyAbortsIffJoinable ==
  /\ (tpc = "live") => (joinable <=> tlast = "create")
  /\ (tpc = "aborted" /\ tcall = "dtor") => (joinable /\ tlast = "create")
  /\ (tpc = "none" /\ tcall = "dtor") => (~joinable /\ tlast \in {"ctor", "join"})

\* created, joined, created again and destroyed: the destructor aborted
C14_Witness ==
  /\ tpc = "aborted"
  /\ tcall = "dtor"
  /\ njoin = 1
  /\ Len(threads) = 2
  /\ joinable

(* -------------------------------- C15 ---------------------------------- *)
\* C15: join does not return before the function started by the matching
\* create has returned, and once that function has returned a pending join
\* returns with the handle non-joinable.
C15_ReturnsAfterCompletion ==
  (tpc = "joining" /\ tpc' = "live") =>
     /\ handle \in DOMAIN threads
     /\ threads[handle].state = "done"
     /\ threads'[handle].state = "joined"
     /\ ~joinable'

C15_Pending ==
  /\ tpc = "joining"
  /\ handle \in DOMAIN threads
  /\ threads[handle].state = "done"

C15_JoinBlocks ==
  /\ [][C15_ReturnsAfterCompletion]_vars
  /\ (C15_Pending ~> (tpc = "live" /\ ~joinable))

\* a join that was entered while the function ran has returned after it
C15_Witness ==
  /\ tpc = "live"
  /\ tlast = "join"
  /\ tcall = "join"
  /\ ~joinable
  /\ handle = 2
  /\ threads[handle].state = "joined"

(* -------------------------------- C18 ---------------------------------- *)
RECURSIVE DoneSum(_)
\* the sum of the addends of the calls 1..n that have returned
DoneSum(n) ==
  IF n = 0 THEN 0
  ELSE (IF apc[n] = "done" THEN addend[n] ELSE 0) + DoneSum(n - 1)

\* C18: under every interleaving each fetch_add returns what the integer
\* held right before its own addition, and the integer holds the initial
\* value plus the addends of exactly the calls that have returned, modulo
\* 2^bits: no addition is lost or made twice.
C18_FetchAddAtomic ==
  (aphase = "run") =>
     /\ \A t \in Adders :
          apc[t] = "done" =>
             /\ ret[t] = before[t]
             /\ ret[t] = expected[t]
     /\ cell = (cell0 + DoneSum(NumAdders)) % AtomMod

\* all calls have returned, one of them after another call's addition, and
\* the sum wrapped around
C18_Witness ==
  /\ aphase = "run"
  /\ \A t \in Adders : apc[t] = "done"
  /\ \E t \in Adders : ret[t] # cell0
  /\ cell0 + DoneSum(NumAdders) >= AtomMod
  /\ cell = (cell0 + DoneSum(NumAdders)) % AtomMod

====
